---- MODULE Spec2Model ----
(***************************************************************************)
(* HealthInspectFHE: the contract's storage, its entry points and the      *)
(* decryption oracle it talks to.                                          *)
(*                                                                         *)
(* An euint32 is modelled by the plaintext it denotes (a storage slot that *)
(* was never written denotes 0); FHE.add is addition and the comparison    *)
(* with FHE.asEuint32(0) is the zero test of the plaintext.                *)
(* Every uint32 the bounds below can produce is far smaller than 2^32, so  *)
(* FHE.add and the uint32 casts never wrap and are modelled without the    *)
(* reduction modulo 2^32.                                                  *)
(* A transaction that reverts has no effect at all: its step leaves every  *)
(* variable as it was, and what the caller is told is the value of the     *)
(* entry point's ...Outcome operator in the state of the call.  The        *)
(* variable lastCall records the entry point, the argument and the events  *)
(* of the most recent transaction that did not revert.                     *)
(***************************************************************************)
EXTENDS Integers, Sequences, FiniteSets, TLC

\* ---------------------------------------------------------------- bounds
MaxReports  == 2
MaxRequests == 3
MaxAnalyses == 2

\* ---------------------------------------------------------------- inputs
\* (hygiene, foodSafety, facility) triples an inspector may encrypt
ScoreTriples ==
    { <<90, 85, 80>>, <<70, 70, 60>>, <<0, 0, 0>>, <<101, 100, 100>> }

LocationCodes == {0, 2}
RestaurantIds == {7}

ReportIds   == 0 .. MaxReports + 1
\* every id the oracle can issue within the bound, and one it never issues
RequestIds  == 1 .. MaxRequests + 1
\* keys of riskAnalyses that any entry point can touch
AnalysisKeys == 0 .. MaxAnalyses + 2

\* ---------------------------------------------------------------- errors
InvalidReportID    == "Invalid report ID"
InvalidRequest     == "Invalid request"
InvalidAnalysisID  == "Invalid analysis ID"
AlreadyRevealed    == "Already revealed"
NoDataForArea      == "No data for area"
InvalidProof       == "InvalidKMSSignatures"
DecodeRevert       == "abi.decode revert"
PanicIndex         == "Panic(0x32)"
PanicArithmetic    == "Panic(0x11)"
Ok                 == "ok"

\* ---------------------------------------------------------------- state
VARIABLES
    reportCount, analysisCount, inspectionReports, riskAnalyses,
    areaStatistics, requestToReportId, requestToAnalysisId,
    oracleRequests,     \* the oracle: requests issued so far, in order
    blockTimestamp,     \* block.timestamp of the latest submission's block
    lastCall,           \* entry point, argument, events of the last successful tx
    resolved,           \* request ids for which some callback has succeeded
    resolutions,        \* payloads of the successful calculateRiskScore calls
    dataStore,          \* web client: what contract.getData returns for each key
    clients,            \* web client: each browser's running handler and its locals
    recordCounter,      \* web client: how many record ids have been generated
    submitted           \* web client: record ids whose submitInspection succeeded

storage == <<reportCount, analysisCount, inspectionReports, riskAnalyses,
             areaStatistics, requestToReportId, requestToAnalysisId>>

\* the key-value contract the web client talks to, and the browsers
web == <<dataStore, clients, recordCounter, submitted>>

vars == <<reportCount, analysisCount, inspectionReports, riskAnalyses,
          areaStatistics, requestToReportId, requestToAnalysisId,
          oracleRequests, blockTimestamp, lastCall, resolved, resolutions, web>>

\* ---------------------------------------------------------------- structs
InspectionReport(restaurantId, hygieneScore, foodSafetyScore, facilityScore, locationCode, timestamp) ==
    [ encryptedRestaurantId    |-> restaurantId,
      encryptedHygieneScore    |-> hygieneScore,
      encryptedFoodSafetyScore |-> foodSafetyScore,
      encryptedFacilityScore   |-> facilityScore,
      encryptedLocationCode    |-> locationCode,
      timestamp                |-> timestamp ]

RiskAnalysis(riskScore, priorityLevel, isRevealed) ==
    [ encryptedRiskScore     |-> riskScore,
      encryptedPriorityLevel |-> priorityLevel,
      isRevealed             |-> isRevealed ]

AreaStats(avgHygiene, riskCount) ==
    [ encryptedAvgHygiene |-> avgHygiene,
      encryptedRiskCount  |-> riskCount ]

\* ---------------------------------------------------------------- FHE library
FHE_asEuint32(n) == n

FHE_add(a, b) == a + b

\* ---------------------------------------------------------------- payloads
\* bytes handed to a callback: an ABI encoding of a uint32[] or anything else
Encoded(values) == [wellFormed |-> TRUE, values |-> values]

Garbage == [wellFormed |-> FALSE, values |-> <<>>]

\* ---------------------------------------------------------------- oracle
\* FHE.requestDecryption: the request id is the oracle's counter
NextRequestId == Len(oracleRequests) + 1

Issued == 1 .. Len(oracleRequests)

\* what the KMS decrypts for request id r: the plaintexts of its ciphertexts
Cleartexts(r) == Encoded(oracleRequests[r].plaintexts)

\* a decryption proof is the KMS signature over (request id, cleartexts);
\* the KMS signs only true decryptions of requests that were issued
KmsProofs == { [requestId |-> r, cleartexts |-> Cleartexts(r)] : r \in Issued }

Forged == [requestId |-> 0, cleartexts |-> Garbage]

\* FHE.checkSignatures(requestId, cleartexts, proof) does not revert
checkSignatures(requestId, cleartexts, proof) ==
    /\ proof \in KmsProofs
    /\ proof.requestId = requestId
    /\ proof.cleartexts = cleartexts


\* ---------------------------------------------------------------- calls
Call(op, arg, events) == [op |-> op, arg |-> arg, events |-> events]

\* a variant in which a call that fails keeps an increment of analysisCount
RevertKeepsCounter ==
    /\ analysisCount' = analysisCount + 1
    /\ UNCHANGED <<reportCount, inspectionReports, riskAnalyses, areaStatistics,
                   requestToReportId, requestToAnalysisId, oracleRequests,
                   blockTimestamp, lastCall, resolved, resolutions, web>>

\* a transaction that reverts: nothing it did is kept
Revert == UNCHANGED vars

\* FHE.requestDecryption(ciphertexts, selector)
requestDecryption(selector, target, plaintexts) ==
    oracleRequests' = Append(oracleRequests,
        [selector |-> selector, target |-> target, plaintexts |-> plaintexts])

\* ---------------------------------------------------------------- web client: data
\* the browsers that run the web client at the same time
Clients == {"c1", "c2"}

\* at most this many records are submitted
MaxRecords == 2

\* `${Date.now()}-${random}`: the n-th record id generated
RecordIdOf(n) == <<"1700000001-a", "1700000002-b", "1700000003-c">>[n]

RecordIds == { RecordIdOf(n) : n \in 1 .. MaxRecords }

\* what may follow "inspection_" in a key of the contract: a record id, or
\* "keys" for the index of record ids
StoreKeys == RecordIds \cup {"1700000009-z", "keys"}

RiskLevels == {"low", "medium", "high"}

FieldNames ==
    {"data", "timestamp", "inspector", "restaurantName", "riskLevel", "status",
     "location", "inspectionDate"}

\* a JSON value as JSON.parse returns it: its named properties (undefined
\* where absent) and, for an array, its elements
Json(kind, props, items) == [kind |-> kind, props |-> props, items |-> items]

NoProps == [f \in FieldNames |-> "undefined"]

\* getData of a key that was never set: bytes of length 0
NoBytes == Json("empty", NoProps, <<>>)

\* ethers.toUtf8Bytes(JSON.stringify(keys)) of a string array
KeysBytes(keys) == Json("array", NoProps, keys)

\* a browser between two handlers, showing the status of the last one
Idle(status) ==
    [ pc |-> "idle", recordId |-> "none", keys |-> <<>>, recordData |-> NoBytes,
      transactionStatus |-> status ]

\* ---------------------------------------------------------------- init
Init ==
    /\ reportCount = 0
    /\ analysisCount = 0
    /\ inspectionReports = [i \in ReportIds |-> InspectionReport(0, 0, 0, 0, 0, 0)]
    /\ riskAnalyses = [i \in AnalysisKeys |-> RiskAnalysis(0, 0, FALSE)]
    /\ areaStatistics = [l \in LocationCodes |-> AreaStats(0, 0)]
    /\ requestToReportId = [r \in RequestIds |-> 0]
    /\ requestToAnalysisId = [r \in RequestIds |-> 0]
    /\ oracleRequests = <<>>
    /\ blockTimestamp = 0
    /\ lastCall = Call("constructor", 0, <<>>)
    /\ resolved = {}
    /\ resolutions = <<>>
    /\ dataStore = [k \in StoreKeys |-> NoBytes]
    /\ clients = [c \in Clients |-> Idle("none")]
    /\ recordCounter = 0
    /\ submitted = {}

\* ---------------------------------------------------------------- submitInspectionReport
\* a variant that stores the report before it increments reportCount
submitInspectionReportStoreFirst(restaurantId, hygieneScore, foodSafetyScore, facilityScore, locationCode, now) ==
    /\ reportCount < MaxReports
    /\ blockTimestamp' = now
    /\ inspectionReports' = [inspectionReports EXCEPT ![reportCount] =
           InspectionReport(restaurantId, hygieneScore, foodSafetyScore,
                            facilityScore, locationCode, now)]
    /\ reportCount' = reportCount + 1
    /\ lastCall' = Call("submitInspectionReport", reportCount + 1,
                        << <<"ReportSubmitted", reportCount + 1, now>> >>)
    /\ UNCHANGED <<analysisCount, riskAnalyses, areaStatistics, requestToReportId,
                   requestToAnalysisId, oracleRequests, resolved, resolutions, web>>

submitInspectionReport(restaurantId, hygieneScore, foodSafetyScore, facilityScore, locationCode, now) ==
    /\ reportCount < MaxReports
    /\ blockTimestamp' = now
    /\ reportCount' = reportCount + 1
    /\ inspectionReports' = [inspectionReports EXCEPT ![reportCount + 1] =
           InspectionReport(restaurantId, hygieneScore, foodSafetyScore,
                            facilityScore, locationCode, now)]
    /\ lastCall' = Call("submitInspectionReport", reportCount + 1,
                        << <<"ReportSubmitted", reportCount + 1, now>> >>)
    /\ UNCHANGED <<analysisCount, riskAnalyses, areaStatistics, requestToReportId,
                   requestToAnalysisId, oracleRequests, resolved, resolutions, web>>

\* ---------------------------------------------------------------- requestRiskAnalysis
requestRiskAnalysisOutcome(reportId) ==
    IF reportId <= reportCount THEN Ok ELSE InvalidReportID

\* a variant that deletes the report once its decryption has been requested
requestRiskAnalysisConsuming(reportId) ==
    /\ Len(oracleRequests) < MaxRequests
    /\ IF requestRiskAnalysisOutcome(reportId) # Ok
       THEN Revert
       ELSE LET reqId == NextRequestId
                report == inspectionReports[reportId]
            IN /\ requestDecryption("calculateRiskScore", reportId,
                      << report.encryptedHygieneScore,
                         report.encryptedFoodSafetyScore,
                         report.encryptedFacilityScore,
                         report.encryptedLocationCode >>)
               /\ requestToReportId' = [requestToReportId EXCEPT ![reqId] = reportId]
               /\ inspectionReports' = [inspectionReports EXCEPT ![reportId] =
                      InspectionReport(0, 0, 0, 0, 0, 0)]
               /\ lastCall' = Call("requestRiskAnalysis", reportId,
                                   << <<"AnalysisRequested", reportId>> >>)
               /\ UNCHANGED <<reportCount, analysisCount, riskAnalyses,
                              areaStatistics, requestToAnalysisId,
                              blockTimestamp, resolved, resolutions, web>>

requestRiskAnalysis(reportId) ==
    /\ Len(oracleRequests) < MaxRequests
    /\ IF requestRiskAnalysisOutcome(reportId) # Ok
       THEN Revert
       ELSE LET reqId == NextRequestId
                report == inspectionReports[reportId]
            IN /\ requestDecryption("calculateRiskScore", reportId,
                      << report.encryptedHygieneScore,
                         report.encryptedFoodSafetyScore,
                         report.encryptedFacilityScore,
                         report.encryptedLocationCode >>)
               /\ requestToReportId' = [requestToReportId EXCEPT ![reqId] = reportId]
               /\ lastCall' = Call("requestRiskAnalysis", reportId,
                                   << <<"AnalysisRequested", reportId>> >>)
               /\ UNCHANGED <<reportCount, analysisCount, inspectionReports,
                              riskAnalyses, areaStatistics, requestToAnalysisId,
                              blockTimestamp, resolved, resolutions, web>>

\* ---------------------------------------------------------------- calculateRiskScore
riskScoreOf(hygieneScore, foodSafetyScore, facilityScore) ==
    (100 - hygieneScore) + (100 - foodSafetyScore) + (100 - facilityScore)

\* a variant whose thresholds include 100 and 150
priorityLevelOfInclusive(riskScore) ==
    IF riskScore >= 150 THEN 3 ELSE IF riskScore >= 100 THEN 2 ELSE 1

priorityLevelOf(riskScore) ==
    IF riskScore > 150 THEN 3 ELSE IF riskScore > 100 THEN 2 ELSE 1

\* a variant that takes a zero risk count for "no aggregate yet"
updateAreaStatisticsByCount(stats, locationCode, hygieneScore, riskScore) ==
    LET initialised ==
            IF stats[locationCode].encryptedRiskCount = FHE_asEuint32(0)
            THEN [stats EXCEPT ![locationCode] =
                      AreaStats(FHE_asEuint32(0), FHE_asEuint32(0))]
            ELSE stats
        summed ==
            [initialised EXCEPT ![locationCode].encryptedAvgHygiene =
                 FHE_add(@, FHE_asEuint32(hygieneScore))]
    IN IF riskScore > 100
       THEN [summed EXCEPT ![locationCode].encryptedRiskCount =
                 FHE_add(@, FHE_asEuint32(1))]
       ELSE summed

\* a variant that adds the hygiene score to the aggregate of every location
updateAreaStatisticsEverywhere(stats, locationCode, hygieneScore, riskScore) ==
    LET summed ==
            [l \in DOMAIN stats |->
                [stats[l] EXCEPT !.encryptedAvgHygiene =
                     FHE_add(@, FHE_asEuint32(hygieneScore))]]
    IN IF riskScore > 100
       THEN [summed EXCEPT ![locationCode].encryptedRiskCount =
                 FHE_add(@, FHE_asEuint32(1))]
       ELSE summed

\* the area statistics after one contribution
updateAreaStatistics(stats, locationCode, hygieneScore, riskScore) ==
    LET initialised ==
            IF stats[locationCode].encryptedAvgHygiene = FHE_asEuint32(0)
            THEN [stats EXCEPT ![locationCode] =
                      AreaStats(FHE_asEuint32(0), FHE_asEuint32(0))]
            ELSE stats
        summed ==
            [initialised EXCEPT ![locationCode].encryptedAvgHygiene =
                 FHE_add(@, FHE_asEuint32(hygieneScore))]
    IN IF riskScore > 100
       THEN [summed EXCEPT ![locationCode].encryptedRiskCount =
                 FHE_add(@, FHE_asEuint32(1))]
       ELSE summed

\* what follows the proof check and precedes the first storage write: the
\* decoding, the four array reads and the checked subtractions
\* a variant whose subtractions are unchecked
calculateRiskScoreDecodeUnchecked(cleartexts) ==
    IF ~cleartexts.wellFormed THEN DecodeRevert
    ELSE IF Len(cleartexts.values) < 4 THEN PanicIndex
    ELSE Ok

calculateRiskScoreDecode(cleartexts) ==
    IF ~cleartexts.wellFormed THEN DecodeRevert
    ELSE IF Len(cleartexts.values) < 4 THEN PanicIndex
    ELSE IF \E i \in 1..3 : cleartexts.values[i] > 100 THEN PanicArithmetic
    ELSE Ok

\* a variant that verifies the proof before it looks the request up
calculateRiskScoreOutcomeProofFirst(requestId, cleartexts, proof) ==
    IF ~checkSignatures(requestId, cleartexts, proof) THEN InvalidProof
    ELSE IF requestToReportId[requestId] = 0 THEN InvalidRequest
    ELSE calculateRiskScoreDecode(cleartexts)

\* a variant that accepts a callback only when every request issued before
\* it has been resolved
calculateRiskScoreOutcomeInOrder(requestId, cleartexts, proof) ==
    IF requestToReportId[requestId] = 0 THEN InvalidRequest
    ELSE IF \E q \in 1 .. requestId - 1 : q \notin resolved THEN InvalidRequest
    ELSE IF ~checkSignatures(requestId, cleartexts, proof) THEN InvalidProof
    ELSE calculateRiskScoreDecode(cleartexts)

calculateRiskScoreOutcome(requestId, cleartexts, proof) ==
    IF requestToReportId[requestId] = 0 THEN InvalidRequest
    ELSE IF ~checkSignatures(requestId, cleartexts, proof) THEN InvalidProof
    ELSE calculateRiskScoreDecode(cleartexts)

calculateRiskScore(requestId, cleartexts, proof) ==
    /\ analysisCount < MaxAnalyses
    /\ IF calculateRiskScoreOutcome(requestId, cleartexts, proof) # Ok
       THEN Revert
       ELSE LET scores == cleartexts.values
                hygieneScore == scores[1]
                foodSafetyScore == scores[2]
                facilityScore == scores[3]
                locationCode == scores[4]
                riskScore == riskScoreOf(hygieneScore, foodSafetyScore, facilityScore)
                priorityLevel == priorityLevelOf(riskScore)
            IN /\ analysisCount' = analysisCount + 1
               /\ riskAnalyses' = [riskAnalyses EXCEPT ![analysisCount + 1] =
                      RiskAnalysis(FHE_asEuint32(riskScore),
                                   FHE_asEuint32(priorityLevel), FALSE)]
               /\ areaStatistics' = updateAreaStatistics(areaStatistics,
                      locationCode, hygieneScore, riskScore)
               /\ lastCall' = Call("calculateRiskScore", requestId,
                                   << <<"RiskIdentified", analysisCount + 1>> >>)
               /\ resolved' = resolved \cup {requestId}
               /\ resolutions' = Append(resolutions,
                      [requestId |-> requestId, scores |-> scores])
               /\ UNCHANGED <<reportCount, inspectionReports, requestToReportId,
                              requestToAnalysisId, oracleRequests, blockTimestamp, web>>

\* ---------------------------------------------------------------- requestAnalysisDecryption
\* a variant that does not look at the revealed flag
requestAnalysisDecryptionOutcomeAnyFlag(analysisId) ==
    IF ~(analysisId <= analysisCount) THEN InvalidAnalysisID ELSE Ok

requestAnalysisDecryptionOutcome(analysisId) ==
    IF ~(analysisId <= analysisCount) THEN InvalidAnalysisID
    ELSE IF riskAnalyses[analysisId].isRevealed THEN AlreadyRevealed
    ELSE Ok

\* a variant in which a new request for an analysis cancels the earlier
\* requests recorded for the same id
requestAnalysisDecryptionSuperseding(analysisId) ==
    /\ Len(oracleRequests) < MaxRequests
    /\ IF requestAnalysisDecryptionOutcome(analysisId) # Ok
       THEN Revert
       ELSE LET reqId == NextRequestId
                analysis == riskAnalyses[analysisId]
            IN /\ requestDecryption("decryptAnalysis", analysisId,
                      << analysis.encryptedRiskScore,
                         analysis.encryptedPriorityLevel >>)
               /\ requestToAnalysisId' =
                      [q \in RequestIds |->
                          IF q = reqId THEN analysisId
                          ELSE IF requestToAnalysisId[q] = analysisId THEN 0
                          ELSE requestToAnalysisId[q]]
               /\ lastCall' = Call("requestAnalysisDecryption", analysisId, <<>>)
               /\ UNCHANGED <<reportCount, analysisCount, inspectionReports,
                              riskAnalyses, areaStatistics, requestToReportId,
                              blockTimestamp, resolved, resolutions, web>>

requestAnalysisDecryption(analysisId) ==
    /\ Len(oracleRequests) < MaxRequests
    /\ IF requestAnalysisDecryptionOutcome(analysisId) # Ok
       THEN Revert
       ELSE LET reqId == NextRequestId
                analysis == riskAnalyses[analysisId]
            IN /\ requestDecryption("decryptAnalysis", analysisId,
                      << analysis.encryptedRiskScore,
                         analysis.encryptedPriorityLevel >>)
               /\ requestToAnalysisId' =
                      [requestToAnalysisId EXCEPT ![reqId] = analysisId]
               /\ lastCall' = Call("requestAnalysisDecryption", analysisId, <<>>)
               /\ UNCHANGED <<reportCount, analysisCount, inspectionReports,
                              riskAnalyses, areaStatistics, requestToReportId,
                              blockTimestamp, resolved, resolutions, web>>

\* ---------------------------------------------------------------- decryptAnalysis
\* what follows the proof check: the decoding; the result is not read
decryptAnalysisDecode(cleartexts) ==
    IF ~cleartexts.wellFormed THEN DecodeRevert ELSE Ok

\* a variant that decodes the payload before it verifies the proof
decryptAnalysisOutcomeDecodeFirst(requestId, cleartexts, proof) ==
    IF requestToAnalysisId[requestId] = 0 THEN InvalidRequest
    ELSE IF decryptAnalysisDecode(cleartexts) # Ok THEN decryptAnalysisDecode(cleartexts)
    ELSE IF ~checkSignatures(requestId, cleartexts, proof) THEN InvalidProof
    ELSE Ok

decryptAnalysisOutcome(requestId, cleartexts, proof) ==
    IF requestToAnalysisId[requestId] = 0 THEN InvalidRequest
    ELSE IF ~checkSignatures(requestId, cleartexts, proof) THEN InvalidProof
    ELSE decryptAnalysisDecode(cleartexts)

decryptAnalysis(requestId, cleartexts, proof) ==
    IF decryptAnalysisOutcome(requestId, cleartexts, proof) # Ok
    THEN Revert
    ELSE LET analysisId == requestToAnalysisId[requestId]
         IN /\ riskAnalyses' = [riskAnalyses EXCEPT ![analysisId].isRevealed = TRUE]
            /\ lastCall' = Call("decryptAnalysis", requestId,
                                << <<"AnalysisRevealed", analysisId>> >>)
            /\ resolved' = resolved \cup {requestId}
            /\ UNCHANGED <<reportCount, analysisCount, inspectionReports,
                           areaStatistics, requestToReportId, requestToAnalysisId,
                           oracleRequests, blockTimestamp, resolutions, web>>

\* ---------------------------------------------------------------- requestAreaStats
requestAreaStatsOutcome(locationCode) ==
    IF areaStatistics[locationCode].encryptedAvgHygiene # FHE_asEuint32(0)
    THEN Ok ELSE NoDataForArea

requestAreaStats(locationCode) ==
    /\ Len(oracleRequests) < MaxRequests
    /\ IF requestAreaStatsOutcome(locationCode) # Ok
       THEN Revert
       ELSE LET reqId == NextRequestId
                stats == areaStatistics[locationCode]
            IN /\ requestDecryption("decryptAreaStats", locationCode,
                      << stats.encryptedAvgHygiene, stats.encryptedRiskCount >>)
               /\ requestToAnalysisId' =
                      [requestToAnalysisId EXCEPT ![reqId] = locationCode]
               /\ lastCall' = Call("requestAreaStats", locationCode, <<>>)
               /\ UNCHANGED <<reportCount, analysisCount, inspectionReports,
                              riskAnalyses, areaStatistics, requestToReportId,
                              blockTimestamp, resolved, resolutions, web>>

\* ---------------------------------------------------------------- decryptAreaStats
\* what follows the proof check: the decoding; the result is not read
decryptAreaStatsDecode(cleartexts) ==
    IF ~cleartexts.wellFormed THEN DecodeRevert ELSE Ok

decryptAreaStatsOutcome(requestId, cleartexts, proof) ==
    IF requestToAnalysisId[requestId] = 0 THEN InvalidRequest
    ELSE IF ~checkSignatures(requestId, cleartexts, proof) THEN InvalidProof
    ELSE decryptAreaStatsDecode(cleartexts)

decryptAreaStats(requestId, cleartexts, proof) ==
    IF decryptAreaStatsOutcome(requestId, cleartexts, proof) # Ok
    THEN Revert
    ELSE /\ lastCall' = Call("decryptAreaStats", requestId, <<>>)
         /\ resolved' = resolved \cup {requestId}
         /\ UNCHANGED <<storage, oracleRequests, blockTimestamp, resolutions, web>>

\* ---------------------------------------------------------------- callers
\* request ids a caller may name: every issued id and one id not yet issued
CallerRequestIds == 1 .. Len(oracleRequests) + 1

\* byte strings that are not the decryption of any request
OtherPayloads == { Garbage, Encoded(<<45, 1>>) }

\* the (requestId, cleartexts, proof) triples a caller of a callback may pass:
\* anything with a forged proof, a KMS proof with cleartexts it does not
\* sign, and a KMS proof with its cleartexts for any request id
Deliveries ==
    { <<r, c, Forged>> : r \in CallerRequestIds, c \in OtherPayloads }
        \cup { <<p.requestId, c, p>> : p \in KmsProofs, c \in OtherPayloads }
        \cup { <<r, p.cleartexts, p>> : r \in CallerRequestIds, p \in KmsProofs }

Next ==
    \/ \E rid \in RestaurantIds, t \in ScoreTriples, l \in LocationCodes :
          submitInspectionReport(rid, t[1], t[2], t[3], l, blockTimestamp + 1)
    \/ \E reportId \in 0 .. reportCount + 1 : requestRiskAnalysis(reportId)
    \/ \E d \in Deliveries : calculateRiskScore(d[1], d[2], d[3])
    \/ \E analysisId \in 0 .. analysisCount + 1 : requestAnalysisDecryption(analysisId)
    \/ \E d \in Deliveries : decryptAnalysis(d[1], d[2], d[3])
    \/ \E l \in LocationCodes : requestAreaStats(l)
    \/ \E d \in Deliveries : decryptAreaStats(d[1], d[2], d[3])

Spec == Init /\ [][Next]_vars

\* ---------------------------------------------------------------- risk arithmetic
\* the scores the arithmetic of calculateRiskScore is exercised on
Scores == {0, 20, 30, 40, 49, 50, 51, 80, 85, 90, 100, 101}

\* one report with any scores, one risk request for it, and its callbacks
NextRisk ==
    \/ \E rid \in RestaurantIds, h \in Scores, f \in Scores, c \in Scores,
          l \in LocationCodes :
          /\ reportCount = 0
          /\ submitInspectionReport(rid, h, f, c, l, blockTimestamp + 1)
    \/ /\ reportCount = 1
       /\ oracleRequests = <<>>
       /\ requestRiskAnalysis(1)
    \/ \E d \in Deliveries : calculateRiskScore(d[1], d[2], d[3])

SpecRisk == Init /\ [][NextRisk]_vars

\* ================================================================ web client
\* A Json value stands for the JSON text the client stores with setData;
\* JSON.parse of what getData returns gives the value back.

\* the variables of HealthInspectFHE and its oracle
chain == <<reportCount, analysisCount, inspectionReports, riskAnalyses,
           areaStatistics, requestToReportId, requestToAnalysisId,
           oracleRequests, blockTimestamp, lastCall, resolved, resolutions>>

\* contract.getData(`inspection_${key}`)
getData(key) == dataStore[key]

\* contract.setData(`inspection_${key}`, bytes), mined
setData(key, bytes) == dataStore' = [dataStore EXCEPT ![key] = bytes]

\* the record submitInspection builds for a record id
NewRecord(recordId, riskLevel) ==
    Json("object",
         [ data |-> "FHE-e30=", timestamp |-> "1700000000", inspector |-> "0xA11CE",
           restaurantName |-> "Cafe", riskLevel |-> riskLevel, status |-> "pending",
           location |-> "Pier 4", inspectionDate |-> "2025-01-01" ],
         <<>>)

\* { ...recordData, status: shouldAlert ? "alert" : "processed" }
updatedRecord(recordData) ==
    LET shouldAlert == recordData.props["riskLevel"] = "high"
    IN Json("object",
            [recordData.props EXCEPT
                 !["status"] = IF shouldAlert THEN "alert" ELSE "processed"],
            recordData.items)

\* ---------------------------------------------------------------- submitInspection
\* up to the first await contract.setData: the record is stored
submitInspectionSetData(c, riskLevel, accepted) ==
    /\ clients[c].pc = "idle"
    /\ recordCounter < MaxRecords
    /\ recordCounter' = recordCounter + 1
    /\ LET recordId == RecordIdOf(recordCounter + 1) IN
       IF accepted
       THEN /\ setData(recordId, NewRecord(recordId, riskLevel))
            /\ clients' = [clients EXCEPT ![c] =
                   [ pc |-> "submitGetKeys", recordId |-> recordId, keys |-> <<>>,
                     recordData |-> NoBytes, transactionStatus |-> "pending" ]]
       ELSE /\ clients' = [clients EXCEPT ![c] = Idle("error")]
            /\ UNCHANGED dataStore
    /\ UNCHANGED <<submitted, chain>>

\* await contract.getData("inspection_keys") and the parsing of the index
submitInspectionGetKeys(c) ==
    /\ clients[c].pc = "submitGetKeys"
    /\ LET keysBytes == getData("keys")
           keys == IF keysBytes.kind = "empty" THEN KeysBytes(<<>>) ELSE keysBytes
       IN clients' = [clients EXCEPT ![c].pc = "submitSetKeys", ![c].keys = keys]
    /\ UNCHANGED <<dataStore, recordCounter, submitted, chain>>

\* keys.push(recordId) and the second await contract.setData
submitInspectionSetKeys(c, accepted) ==
    /\ clients[c].pc = "submitSetKeys"
    /\ LET keys == clients[c].keys
           recordId == clients[c].recordId
       IN IF keys.kind = "array" /\ accepted
          THEN /\ setData("keys", KeysBytes(Append(keys.items, recordId)))
               /\ submitted' = submitted \cup {recordId}
               /\ clients' = [clients EXCEPT ![c] = Idle("success")]
          ELSE /\ clients' = [clients EXCEPT ![c] = Idle("error")]
               /\ UNCHANGED <<dataStore, submitted>>
    /\ UNCHANGED <<recordCounter, chain>>

\* ---------------------------------------------------------------- processInspection
\* up to await contract.getData: "Record not found" for bytes of length 0
processInspectionGetData(c, recordId) ==
    /\ clients[c].pc = "idle"
    /\ LET recordBytes == getData(recordId)
       IN IF recordBytes.kind = "empty"
          THEN clients' = [clients EXCEPT ![c] = Idle("error")]
          ELSE clients' = [clients EXCEPT ![c] =
                   [ pc |-> "processSetData", recordId |-> recordId, keys |-> <<>>,
                     recordData |-> recordBytes, transactionStatus |-> "pending" ]]
    /\ UNCHANGED <<dataStore, recordCounter, submitted, chain>>

\* the updated record and await contract.setData
processInspectionSetData(c, accepted) ==
    /\ clients[c].pc = "processSetData"
    /\ IF accepted
       THEN /\ setData(clients[c].recordId, updatedRecord(clients[c].recordData))
            /\ clients' = [clients EXCEPT ![c] = Idle("success")]
       ELSE /\ clients' = [clients EXCEPT ![c] = Idle("error")]
            /\ UNCHANGED dataStore
    /\ UNCHANGED <<recordCounter, submitted, chain>>

\* the record ids processInspection is called with: every stored key suffix
ProcessInputs == StoreKeys

NextWeb ==
    \/ \E c \in Clients, riskLevel \in RiskLevels, accepted \in BOOLEAN :
          submitInspectionSetData(c, riskLevel, accepted)
    \/ \E c \in Clients : submitInspectionGetKeys(c)
    \/ \E c \in Clients, accepted \in BOOLEAN : submitInspectionSetKeys(c, accepted)
    \/ \E c \in Clients, recordId \in ProcessInputs : processInspectionGetData(c, recordId)
    \/ \E c \in Clients, accepted \in BOOLEAN : processInspectionSetData(c, accepted)

SpecWeb == Init /\ [][NextWeb]_vars

\* ================================================================ properties

\* the pending-request table holds an entry for request id r
Pending(r) == requestToReportId[r] # 0 \/ requestToAnalysisId[r] # 0

\* the purpose request id r was dispatched for
PurposeOf(r) == oracleRequests[r].selector

TargetOf(r) == oracleRequests[r].target

\* ---------------------------------------------------------------- C1
\* C1: once a callback for a request id has succeeded, every later callback
\* (calculateRiskScore, decryptAnalysis, decryptAreaStats) carrying that
\* request id fails with "Invalid request", whatever payload and proof it
\* carries, the request's own valid proof and payload included.
C1_ReplayRejected ==
    \A d \in Deliveries :
        d[1] \in resolved =>
            /\ calculateRiskScoreOutcome(d[1], d[2], d[3]) = InvalidRequest
            /\ decryptAnalysisOutcome(d[1], d[2], d[3]) = InvalidRequest
            /\ decryptAreaStatsOutcome(d[1], d[2], d[3]) = InvalidRequest

\* ---------------------------------------------------------------- C2
\* C2: a callback carrying a request id that no dispatch has returned fails
\* with "Invalid request" for every payload and every proof: the lookup is
\* decided before the proof is verified and before the payload is decoded.
C2_UnissuedRejected ==
    \A d \in Deliveries :
        d[1] \notin Issued =>
            /\ calculateRiskScoreOutcome(d[1], d[2], d[3]) = InvalidRequest
            /\ decryptAnalysisOutcome(d[1], d[2], d[3]) = InvalidRequest
            /\ decryptAreaStatsOutcome(d[1], d[2], d[3]) = InvalidRequest

\* requests have been issued and resolved, and a caller presents an id that
\* was never issued together with a genuine KMS proof and its cleartexts,
\* which the same callback accepts for the request the proof belongs to
C2_Witness ==
    /\ resolved # {}
    /\ \E d \in Deliveries :
          /\ d[1] \notin Issued
          /\ d[3] \in KmsProofs
          /\ d[2] = d[3].cleartexts
          /\ calculateRiskScoreOutcome(d[3].requestId, d[2], d[3]) = Ok
          /\ calculateRiskScoreOutcome(d[1], d[2], d[3]) = InvalidRequest

\* ---------------------------------------------------------------- C3
\* C3: a pending-request entry exists for a request id exactly when the id
\* has been returned by a dispatch and no callback for it has succeeded yet.
C3_PendingIffOutstanding ==
    \A r \in RequestIds : Pending(r) <=> (r \in Issued /\ r \notin resolved)

\* ---------------------------------------------------------------- C4
\* C4: the revealed flag of an analysis a turns true only in a successful
\* decryptAnalysis whose request id was dispatched by
\* requestAnalysisDecryption(a); an id issued by requestAreaStats or by
\* requestRiskAnalysis never sets a revealed flag.
C4_RevealOnlyByAnalysisReveal ==
    [][ \A a \in AnalysisKeys :
          (~riskAnalyses[a].isRevealed /\ riskAnalyses'[a].isRevealed) =>
              /\ lastCall'.op = "decryptAnalysis"
              /\ PurposeOf(lastCall'.arg) = "decryptAnalysis"
              /\ TargetOf(lastCall'.arg) = a ]_vars

\* ---------------------------------------------------------------- C5
\* C5: when two requestAnalysisDecryption requests for the same analysis are
\* outstanding and the callback of one has revealed the analysis, the
\* callback of the other fails with "Already revealed".
C5_SecondRevealRejected ==
    \A d \in Deliveries :
        LET r == d[1] IN
        ( /\ r \in Issued
          /\ r \notin resolved
          /\ PurposeOf(r) = "decryptAnalysis"
          /\ TargetOf(r) # 0
          /\ riskAnalyses[TargetOf(r)].isRevealed ) =>
            decryptAnalysisOutcome(d[1], d[2], d[3]) = AlreadyRevealed

\* ---------------------------------------------------------------- C6
\* C6: every analysis created from decrypted scores (hygiene, foodSafety,
\* facility) in [0,100]^3 stores riskScore = 300 - hygiene - foodSafety -
\* facility and priorityLevel 1 for riskScore <= 100, 2 for
\* 100 < riskScore <= 150, 3 for riskScore > 150.
C6_RiskScoreAndPriority ==
    \A n \in 1 .. Len(resolutions) :
        LET hygiene == resolutions[n].scores[1]
            foodSafety == resolutions[n].scores[2]
            facility == resolutions[n].scores[3]
            expected == 300 - hygiene - foodSafety - facility
        IN ({hygiene, foodSafety, facility} \subseteq 0 .. 100) =>
              /\ riskAnalyses[n].encryptedRiskScore = expected
              /\ riskAnalyses[n].encryptedPriorityLevel =
                     (IF expected <= 100 THEN 1 ELSE IF expected <= 150 THEN 2 ELSE 3)

\* the resolution of scores 40, 30, 20 stored risk score 210 and priority 3
C6_Witness ==
    /\ analysisCount >= 1
    /\ Len(resolutions) >= 1
    /\ resolutions[1].scores[1] = 40
    /\ resolutions[1].scores[2] = 30
    /\ resolutions[1].scores[3] = 20
    /\ riskAnalyses[1].encryptedRiskScore = 210
    /\ riskAnalyses[1].encryptedPriorityLevel = 3

\* ---------------------------------------------------------------- C7
\* the hygiene values of the first n successful resolutions for location l
RECURSIVE HygieneContributed(_, _)
HygieneContributed(l, n) ==
    IF n = 0 THEN 0
    ELSE HygieneContributed(l, n - 1)
             + (IF resolutions[n].scores[4] = l THEN resolutions[n].scores[1] ELSE 0)

\* C7: the running hygiene sum of every location equals the sum of the
\* hygiene values of all successful RiskCalculation resolutions whose
\* decrypted location code is that location.
C7_HygieneSum ==
    \A l \in LocationCodes :
        areaStatistics[l].encryptedAvgHygiene
            = HygieneContributed(l, Len(resolutions))

\* two resolutions with hygiene 70 and 90 for one location gave 160
C7_Witness ==
    /\ Len(resolutions) = 2
    /\ resolutions[1].scores[4] = resolutions[2].scores[4]
    /\ {resolutions[1].scores[1], resolutions[2].scores[1]} = {70, 90}
    /\ areaStatistics[resolutions[1].scores[4]].encryptedAvgHygiene = 160

\* ---------------------------------------------------------------- C8
\* the successful resolutions for location l whose risk score exceeded 100
HighRiskResolutions(l) ==
    { n \in 1 .. Len(resolutions) :
        /\ resolutions[n].scores[4] = l
        /\ 300 - resolutions[n].scores[1] - resolutions[n].scores[2]
               - resolutions[n].scores[3] > 100 }

\* C8: the running high-risk count of every location equals the number of
\* successful resolutions for that location whose riskScore exceeded 100.
C8_HighRiskCount ==
    \A l \in LocationCodes :
        areaStatistics[l].encryptedRiskCount = Cardinality(HighRiskResolutions(l))

\* ---------------------------------------------------------------- C9
\* C9: requestRiskAnalysis(r) fails for r = 0 and for r > reportCount, and
\* requestAnalysisDecryption(a) fails for a = 0 and for a > analysisCount.
C9_UnknownTargetRejected ==
    /\ \A r \in ReportIds :
          (r = 0 \/ r > reportCount) => requestRiskAnalysisOutcome(r) = InvalidReportID
    /\ \A a \in AnalysisKeys :
          (a = 0 \/ a > analysisCount) =>
              requestAnalysisDecryptionOutcome(a) = InvalidAnalysisID

\* ---------------------------------------------------------------- C10
\* the reports, the analyses and the area aggregates with their counters
ledger == <<reportCount, analysisCount, inspectionReports, riskAnalyses,
            areaStatistics>>

\* C10: a successful decryptAreaStats for a request id that requestAreaStats
\* issued leaves the reports, the analyses and the area aggregates unchanged
\* and removes the pending entry of that request id.
C10_AreaStatsRoundTrip ==
    [][ \A d \in Deliveries :
          ( /\ d[1] \in Issued
            /\ PurposeOf(d[1]) = "decryptAreaStats"
            /\ decryptAreaStatsOutcome(d[1], d[2], d[3]) = Ok
            /\ decryptAreaStats(d[1], d[2], d[3]) ) =>
              (UNCHANGED ledger /\ ~Pending(d[1])') ]_vars

\* ---------------------------------------------------------------- C11
\* what a transaction can leave behind: storage, oracle requests, events
effects == <<storage, oracleRequests, lastCall>>

\* C11: a call that fails (a dispatch whose require fails, a callback
\* rejected by the lookup, by the proof check, by the decoding or by the
\* checked arithmetic) leaves the counters, the reports, the analyses, the
\* area aggregates and both request tables as they were, issues no oracle
\* request and emits no event: a step that changes any of these is not the
\* step of a call whose outcome is a failure.
C11_FailedCallNoEffect ==
    [][ \/ UNCHANGED effects
        \/ /\ \A d \in Deliveries :
                  /\ ~( /\ calculateRiskScore(d[1], d[2], d[3])
                        /\ calculateRiskScoreOutcome(d[1], d[2], d[3]) # Ok )
                  /\ ~( /\ decryptAnalysis(d[1], d[2], d[3])
                        /\ decryptAnalysisOutcome(d[1], d[2], d[3]) # Ok )
                  /\ ~( /\ decryptAreaStats(d[1], d[2], d[3])
                        /\ decryptAreaStatsOutcome(d[1], d[2], d[3]) # Ok )
           /\ \A reportId \in 0 .. reportCount + 1 :
                  ~( /\ requestRiskAnalysis(reportId)
                     /\ requestRiskAnalysisOutcome(reportId) # Ok )
           /\ \A analysisId \in 0 .. analysisCount + 1 :
                  ~( /\ requestAnalysisDecryption(analysisId)
                     /\ requestAnalysisDecryptionOutcome(analysisId) # Ok )
           /\ \A l \in LocationCodes :
                  ~( /\ requestAreaStats(l)
                     /\ requestAreaStatsOutcome(l) # Ok ) ]_vars

\* an analysis exists, and callers can make calculateRiskScore fail at the
\* lookup, at the proof check and in the checked subtraction, decryptAnalysis
\* fail at the proof check and requestRiskAnalysis fail at its require
C11_Witness ==
    /\ analysisCount >= 1
    /\ \E d \in Deliveries :
          calculateRiskScoreOutcome(d[1], d[2], d[3]) = InvalidRequest
    /\ \E d \in Deliveries :
          calculateRiskScoreOutcome(d[1], d[2], d[3]) = InvalidProof
    /\ \E d \in Deliveries :
          calculateRiskScoreOutcome(d[1], d[2], d[3]) = PanicArithmetic
    /\ \E d \in Deliveries :
          decryptAnalysisOutcome(d[1], d[2], d[3]) = InvalidProof
    /\ requestRiskAnalysisOutcome(reportCount + 1) = InvalidReportID

\* ---------------------------------------------------------------- C12
\* the report ids submitInspectionReport has stored a report under
CreatedReports == { i \in ReportIds : inspectionReports[i].timestamp # 0 }

\* the analysis ids calculateRiskScore has stored an analysis under
CreatedAnalyses ==
    { a \in AnalysisKeys : riskAnalyses[a].encryptedPriorityLevel # FHE_asEuint32(0) }

\* C12: the created reports are exactly the ids 1..reportCount and the
\* created analyses exactly the ids 1..analysisCount; no step lowers a
\* counter; every successful submitInspectionReport raises reportCount by 1
\* and stores under the new count, an id nothing was stored under before;
\* every successful calculateRiskScore does the same for analysisCount; no
\* other call moves a counter, and nothing is ever stored under id 0.
C12_SequentialIds ==
    [][ /\ CreatedReports = 1 .. reportCount
        /\ CreatedAnalyses = 1 .. analysisCount
        /\ CreatedReports' = 1 .. reportCount'
        /\ CreatedAnalyses' = 1 .. analysisCount'
        /\ reportCount' >= reportCount
        /\ analysisCount' >= analysisCount
        /\ (lastCall' # lastCall /\ lastCall'.op = "submitInspectionReport") =>
              /\ reportCount' = reportCount + 1
              /\ lastCall'.events = << <<"ReportSubmitted", reportCount', blockTimestamp'>> >>
              /\ reportCount' \notin CreatedReports
        /\ (lastCall' # lastCall /\ lastCall'.op = "calculateRiskScore") =>
              /\ analysisCount' = analysisCount + 1
              /\ lastCall'.events = << <<"RiskIdentified", analysisCount'>> >>
              /\ analysisCount' \notin CreatedAnalyses
        /\ reportCount' # reportCount =>
              (lastCall' # lastCall /\ lastCall'.op = "submitInspectionReport")
        /\ analysisCount' # analysisCount =>
              (lastCall' # lastCall /\ lastCall'.op = "calculateRiskScore") ]_vars

\* two reports and two analyses have been created, the second analysis last
C12_Witness ==
    /\ reportCount = 2
    /\ analysisCount = 2
    /\ CreatedReports = {1, 2}
    /\ CreatedAnalyses = {1, 2}
    /\ lastCall.op = "calculateRiskScore"
    /\ lastCall.events = << <<"RiskIdentified", 2>> >>

\* ---------------------------------------------------------------- C13
\* the proof the KMS signs for request id r
KmsProofOf(r) == [requestId |-> r, cleartexts |-> Cleartexts(r)]

\* C13: for every request id a successful dispatch has returned, the callback
\* the request was dispatched for, delivered with the request's cleartexts
\* and KMS proof, is not rejected with "Invalid request", whatever the
\* target the dispatch succeeded for.
C13_DispatchRecordsPending ==
    \A r \in Issued :
        /\ PurposeOf(r) = "calculateRiskScore" =>
              calculateRiskScoreOutcome(r, Cleartexts(r), KmsProofOf(r)) # InvalidRequest
        /\ PurposeOf(r) = "decryptAnalysis" =>
              decryptAnalysisOutcome(r, Cleartexts(r), KmsProofOf(r)) # InvalidRequest
        /\ PurposeOf(r) = "decryptAreaStats" =>
              decryptAreaStatsOutcome(r, Cleartexts(r), KmsProofOf(r)) # InvalidRequest

\* ---------------------------------------------------------------- C14
\* the report the n-th successful calculateRiskScore created its analysis from
ReportOfResolution(n) == TargetOf(resolutions[n].requestId)

\* C14: no two successful calculateRiskScore calls were made for the same
\* report, so that at most one analysis is created from a report and its
\* hygiene score is added to the area aggregate at most once.
C14_OneAnalysisPerReport ==
    \A m \in 1 .. Len(resolutions), n \in 1 .. Len(resolutions) :
        ReportOfResolution(m) = ReportOfResolution(n) => m = n

\* ---------------------------------------------------------------- C15
getAnalysisStatus(analysisId) == riskAnalyses[analysisId].isRevealed

\* C15: for every analysis id, once getAnalysisStatus(id) is true it is true
\* after every later step, the creation of further analyses included.
C15_RevealedMonotonic ==
    [][ \A a \in AnalysisKeys : getAnalysisStatus(a) => getAnalysisStatus(a)' ]_vars

\* ---------------------------------------------------------------- C16
\* C16: the revealed flag is true only for ids in 1..analysisCount, and the
\* AnalysisRevealed event of the latest decryptAnalysis names such an id, so
\* that getAnalysisStatus(id) is false for every id that was not created.
C16_RevealedOnlyCreated ==
    /\ \A a \in AnalysisKeys : getAnalysisStatus(a) => a \in 1 .. analysisCount
    /\ lastCall.op = "decryptAnalysis" =>
          \A e \in 1 .. Len(lastCall.events) :
              lastCall.events[e][2] \in 1 .. analysisCount

\* ---------------------------------------------------------------- C17
\* C17: in no step does the hygiene running sum or the high-risk running
\* count of a location decrease; in particular an aggregate that has
\* received a contribution is never re-initialised to zero.
C17_AggregateOnlyGrows ==
    [][ \A l \in LocationCodes :
          /\ areaStatistics'[l].encryptedAvgHygiene >= areaStatistics[l].encryptedAvgHygiene
          /\ areaStatistics'[l].encryptedRiskCount >= areaStatistics[l].encryptedRiskCount ]_vars

\* ---------------------------------------------------------------- C18
\* C18: no step changes a field or the timestamp of a report that
\* submitInspectionReport has stored, whichever call the step belongs to.
C18_ReportImmutable ==
    [][ \A i \in CreatedReports : inspectionReports'[i] = inspectionReports[i] ]_vars

\* both reports still hold what was submitted (the timestamps of the first
\* and of the second submission) after a second submission, dispatches and
\* successful callbacks of calculateRiskScore and of another entry point
C18_Witness ==
    /\ reportCount = 2
    /\ inspectionReports[1].timestamp = 1
    /\ inspectionReports[2].timestamp = 2
    /\ inspectionReports[1].encryptedHygieneScore # inspectionReports[2].encryptedHygieneScore
    /\ analysisCount >= 1
    /\ Cardinality(resolved) >= 2
    /\ lastCall.op \in {"decryptAnalysis", "decryptAreaStats"}

\* ---------------------------------------------------------------- C19
\* well-formed uint32[] payloads of every length from 0 to 5
LengthPayloads ==
    { Encoded(<<>>), Encoded(<<45>>), Encoded(<<45, 1>>), Encoded(<<45, 1, 2>>),
      Encoded(<<90, 85, 80, 2>>), Encoded(<<90, 85, 80, 2, 9>>) }

\* C19: for a pending request, a payload that does not hold exactly 4 values
\* makes calculateRiskScore fail once the proof is verified, and a payload
\* that does not hold exactly 2 values makes decryptAnalysis and
\* decryptAreaStats fail, be the payload empty, too short or too long.
C19_WrongLengthRejected ==
    \A r \in Issued : \A c \in LengthPayloads :
        /\ (requestToReportId[r] # 0 /\ Len(c.values) # 4) =>
              calculateRiskScoreDecode(c) # Ok
        /\ (requestToAnalysisId[r] # 0 /\ Len(c.values) # 2) =>
              /\ decryptAnalysisDecode(c) # Ok
              /\ decryptAreaStatsDecode(c) # Ok

\* ---------------------------------------------------------------- C20
\* callback arguments with every kind of payload: those of Deliveries and
\* every well-formed payload length under a forged proof
ProofDeliveries ==
    Deliveries \cup { <<r, c, Forged>> : r \in CallerRequestIds, c \in LengthPayloads }

\* C20: in each callback, for a request id that has an entry in the table
\* the callback reads, a proof that does not verify gives
\* InvalidKMSSignatures whatever the payload is (undecodable, of a wrong
\* length, or the true cleartexts of another request), and the call leaves
\* storage, oracle requests and events as they were.
C20_ProofBeforePayload ==
    \A d \in ProofDeliveries :
        ~checkSignatures(d[1], d[2], d[3]) =>
            /\ requestToReportId[d[1]] # 0 =>
                  /\ calculateRiskScoreOutcome(d[1], d[2], d[3]) = InvalidProof
                  /\ ~ENABLED (calculateRiskScore(d[1], d[2], d[3]) /\ effects' # effects)
            /\ requestToAnalysisId[d[1]] # 0 =>
                  /\ decryptAnalysisOutcome(d[1], d[2], d[3]) = InvalidProof
                  /\ decryptAreaStatsOutcome(d[1], d[2], d[3]) = InvalidProof
                  /\ ~ENABLED (decryptAnalysis(d[1], d[2], d[3]) /\ effects' # effects)
                  /\ ~ENABLED (decryptAreaStats(d[1], d[2], d[3]) /\ effects' # effects)

\* requests are pending in both tables and each callback is offered an
\* undecodable payload with a proof that does not verify; calculateRiskScore
\* is also offered a too-long payload and decryptAnalysis the signed
\* cleartexts of a different request
C20_Witness ==
    /\ analysisCount >= 1
    /\ \E d \in ProofDeliveries :
          /\ requestToReportId[d[1]] # 0
          /\ d[2] = Garbage
          /\ calculateRiskScoreOutcome(d[1], d[2], d[3]) = InvalidProof
    /\ \E d \in ProofDeliveries :
          /\ requestToReportId[d[1]] # 0
          /\ d[2].wellFormed
          /\ Len(d[2].values) = 5
          /\ calculateRiskScoreOutcome(d[1], d[2], d[3]) = InvalidProof
    /\ \E d \in ProofDeliveries :
          /\ requestToAnalysisId[d[1]] # 0
          /\ d[2] = Garbage
          /\ decryptAnalysisOutcome(d[1], d[2], d[3]) = InvalidProof
          /\ decryptAreaStatsOutcome(d[1], d[2], d[3]) = InvalidProof
    /\ \E d \in ProofDeliveries :
          /\ requestToAnalysisId[d[1]] # 0
          /\ d[3] \in KmsProofs
          /\ d[3].requestId # d[1]
          /\ d[2] = d[3].cleartexts
          /\ decryptAnalysisOutcome(d[1], d[2], d[3]) = InvalidProof

\* ---------------------------------------------------------------- C21
\* the table entry the callback of request id r reads
EntryOf(r) ==
    IF PurposeOf(r) = "calculateRiskScore" THEN requestToReportId[r]
    ELSE requestToAnalysisId[r]

\* what the callback request id r was dispatched for answers when it is
\* delivered with the cleartexts and the proof of the KMS for r
OwnOutcome(r) ==
    IF PurposeOf(r) = "calculateRiskScore"
    THEN calculateRiskScoreOutcome(r, Cleartexts(r), KmsProofOf(r))
    ELSE IF PurposeOf(r) = "decryptAnalysis"
    THEN decryptAnalysisOutcome(r, Cleartexts(r), KmsProofOf(r))
    ELSE decryptAreaStatsOutcome(r, Cleartexts(r), KmsProofOf(r))

\* the decrypted scores of request id r pass the checked subtractions
ScoresInRange(r) ==
    PurposeOf(r) = "calculateRiskScore" =>
        \A i \in 1 .. 3 : oracleRequests[r].plaintexts[i] <= 100

Callbacks == {"calculateRiskScore", "decryptAnalysis", "decryptAreaStats"}

\* C21: a request with an entry in its table is accepted whichever other
\* requests, issued earlier or later, have or have not been resolved; the
\* successful callback of one request id leaves the entry, the oracle
\* request and the outcome of every other request id as they were; and a
\* successful callback acts on the target recorded when its request was
\* dispatched (the scores of that report, the flag of that analysis id).
C21_AnyOrder ==
    [][ /\ \A r \in Issued :
              (EntryOf(r) # 0 /\ ScoresInRange(r)) => OwnOutcome(r) = Ok
        /\ (lastCall' # lastCall /\ lastCall'.op \in Callbacks) =>
              LET r == lastCall'.arg IN
              /\ \A q \in Issued \ {r} :
                    /\ requestToReportId'[q] = requestToReportId[q]
                    /\ requestToAnalysisId'[q] = requestToAnalysisId[q]
                    /\ oracleRequests'[q] = oracleRequests[q]
                    /\ OwnOutcome(q)' = OwnOutcome(q)
              /\ lastCall'.op = "calculateRiskScore" =>
                    /\ requestToReportId[r] = TargetOf(r)
                    /\ resolutions'[Len(resolutions')].scores =
                           << inspectionReports[TargetOf(r)].encryptedHygieneScore,
                              inspectionReports[TargetOf(r)].encryptedFoodSafetyScore,
                              inspectionReports[TargetOf(r)].encryptedFacilityScore,
                              inspectionReports[TargetOf(r)].encryptedLocationCode >>
              /\ lastCall'.op = "decryptAnalysis" =>
                    /\ requestToAnalysisId[r] = TargetOf(r)
                    /\ riskAnalyses'[TargetOf(r)].isRevealed
                    /\ lastCall'.events = << <<"AnalysisRevealed", TargetOf(r)>> >> ]_vars

\* requests 1 and 2 were both dispatched for reports with different scores;
\* request 2 was resolved first and request 1 after it, each with the scores
\* of its own report
C21_Witness ==
    /\ Len(resolutions) = 2
    /\ resolutions[1].requestId = 2
    /\ resolutions[2].requestId = 1
    /\ TargetOf(1) # TargetOf(2)
    /\ resolutions[1].scores # resolutions[2].scores
    /\ resolutions[1].scores = oracleRequests[2].plaintexts
    /\ resolutions[2].scores = oracleRequests[1].plaintexts

\* ---------------------------------------------------------------- C22
\* the step is a successful callback carrying request id q
ResolvedBy(q) ==
    /\ lastCall' # lastCall
    /\ lastCall'.op \in Callbacks
    /\ lastCall'.arg = q

\* C22: the entry of an issued request id in either table, and the callback
\* and target the oracle holds for it, are the same after every step that
\* is not a successful callback carrying that id: a submission, any
\* dispatch, a callback for another id and a failed call leave them alone.
C22_PendingUntilOwnCallback ==
    [][ \A q \in Issued :
          \/ ResolvedBy(q)
          \/ /\ requestToReportId'[q] = requestToReportId[q]
             /\ requestToAnalysisId'[q] = requestToAnalysisId[q]
             /\ oracleRequests'[q] = oracleRequests[q]
             /\ Pending(q) => Pending(q)' ]_vars

\* request 1 still has its entry and has not been resolved although two
\* more requests were dispatched, a second report was submitted and the
\* latest step was the successful callback of another request
C22_Witness ==
    /\ Pending(1)
    /\ 1 \notin resolved
    /\ requestToReportId[1] = TargetOf(1)
    /\ Len(oracleRequests) = 3
    /\ reportCount = 2
    /\ resolved # {}
    /\ lastCall.op \in Callbacks
    /\ lastCall.arg # 1

\* ---------------------------------------------------------------- C23
\* the RiskCalculation requests whose callback would be accepted
PendingRiskRequests ==
    { r \in Issued : /\ PurposeOf(r) = "calculateRiskScore"
                     /\ requestToReportId[r] # 0
                     /\ ScoresInRange(r) }

\* the area statistics stats after the successful callback of request id r
Contributed(stats, r) ==
    LET scores == oracleRequests[r].plaintexts
    IN updateAreaStatistics(stats, scores[4], scores[1],
                            riskScoreOf(scores[1], scores[2], scores[3]))

\* C23: for any two pending RiskCalculation requests, resolving them in
\* either order from the present state ends with the same hygiene sum and
\* the same high-risk count for every location.
C23_OrderIndependentAggregates ==
    \A r1 \in PendingRiskRequests, r2 \in PendingRiskRequests :
        Contributed(Contributed(areaStatistics, r1), r2)
            = Contributed(Contributed(areaStatistics, r2), r1)

\* ---------------------------------------------------------------- C24
\* C24: the callback of a RiskCalculation request one of whose decrypted
\* scores exceeds 100 fails in the checked subtraction and has no successor
\* that changes storage, oracle requests or events; every stored analysis
\* has a risk score in 0..300 and a priority level in 1..3.
C24_ScoreAbove100Rejected ==
    /\ \A r \in Issued :
          ( /\ PurposeOf(r) = "calculateRiskScore"
            /\ requestToReportId[r] # 0
            /\ ~ScoresInRange(r) ) =>
              /\ OwnOutcome(r) = PanicArithmetic
              /\ ~ENABLED ( /\ calculateRiskScore(r, Cleartexts(r), KmsProofOf(r))
                            /\ effects' # effects )
    /\ \A a \in 1 .. analysisCount :
          /\ riskAnalyses[a].encryptedRiskScore \in 0 .. 300
          /\ riskAnalyses[a].encryptedPriorityLevel \in 1 .. 3

\* the decryption of a report with facility score 101 and both other scores
\* in range has been requested; its callback is refused and no analysis
\* exists
C24_Witness ==
    /\ Len(oracleRequests) = 1
    /\ requestToReportId[1] = 1
    /\ oracleRequests[1].plaintexts[1] = 100
    /\ oracleRequests[1].plaintexts[2] = 0
    /\ oracleRequests[1].plaintexts[3] = 101
    /\ OwnOutcome(1) = PanicArithmetic
    /\ analysisCount = 0

\* ---------------------------------------------------------------- C25
\* C25: a successful calculateRiskScore whose decrypted location code is L
\* raises analysisCount, writes the analysis under the new count and the
\* aggregate of L, and nothing else: the aggregate of every other location,
\* every other analysis (scores and revealed flag), every report,
\* reportCount and both request tables are the same after the step.
C25_RiskResolutionFrame ==
    [][ (lastCall' # lastCall /\ lastCall'.op = "calculateRiskScore") =>
          LET L == resolutions'[Len(resolutions')].scores[4] IN
          /\ \A l \in LocationCodes \ {L} : areaStatistics'[l] = areaStatistics[l]
          /\ \A a \in AnalysisKeys \ {analysisCount'} : riskAnalyses'[a] = riskAnalyses[a]
          /\ UNCHANGED <<inspectionReports, reportCount, requestToReportId,
                         requestToAnalysisId, oracleRequests>> ]_vars

\* the second analysis has just been created from a report of another
\* location than the first, which keeps its aggregate, and the first
\* analysis is still revealed
C25_Witness ==
    /\ lastCall.op = "calculateRiskScore"
    /\ analysisCount = 2
    /\ Len(resolutions) = 2
    /\ resolutions[1].scores[4] # resolutions[2].scores[4]
    /\ areaStatistics[resolutions[1].scores[4]].encryptedAvgHygiene
           = resolutions[1].scores[1]
    /\ resolutions[1].scores[1] > 0
    /\ riskAnalyses[1].isRevealed

\* ---------------------------------------------------------------- C26
\* the oracle: it calls, for a request not yet resolved, the callback named
\* at FHE.requestDecryption with the request's cleartexts and KMS proof
OracleCallback(r) ==
    /\ r \in Issued
    /\ r \notin resolved
    /\ \/ /\ PurposeOf(r) = "calculateRiskScore"
          /\ calculateRiskScore(r, Cleartexts(r), KmsProofOf(r))
       \/ /\ PurposeOf(r) = "decryptAnalysis"
          /\ decryptAnalysis(r, Cleartexts(r), KmsProofOf(r))
       \/ /\ PurposeOf(r) = "decryptAreaStats"
          /\ decryptAreaStats(r, Cleartexts(r), KmsProofOf(r))

\* the RiskCalculation requests issued so far
RiskRequests == { r \in Issued : PurposeOf(r) = "calculateRiskScore" }

\* users submit and dispatch, and only the oracle calls the callbacks, once
\* per request; no more RiskCalculation requests than analyses fit the bound
NextLive ==
    \/ \E rid \in RestaurantIds, t \in ScoreTriples, l \in LocationCodes :
          submitInspectionReport(rid, t[1], t[2], t[3], l, blockTimestamp + 1)
    \/ \E reportId \in 0 .. reportCount :
          /\ Cardinality(RiskRequests) < MaxAnalyses
          /\ requestRiskAnalysis(reportId)
    \/ \E analysisId \in 0 .. analysisCount : requestAnalysisDecryption(analysisId)
    \/ \E l \in LocationCodes : requestAreaStats(l)
    \/ \E r \in RequestIds : OracleCallback(r)

\* the oracle is fair: a request that stays deliverable is delivered
SpecLive == Init /\ [][NextLive]_vars /\ \A r \in RequestIds : WF_vars(OracleCallback(r))

\* C26: under the fair oracle every request a dispatch has issued, with
\* decrypted scores within 0..100, is eventually resolved by its callback,
\* whatever target the dispatch accepted.
C26_EventuallyResolved ==
    \A r \in RequestIds :
        (r \in Issued /\ ScoresInRange(r)) ~> (r \in resolved)

\* ---------------------------------------------------------------- C27
\* C27: for a created analysis a whose revealed flag is set,
\* requestAnalysisDecryption(a) fails with "Already revealed", no step of
\* it changes storage, oracle requests or events, and no step adds an
\* oracle request with callback decryptAnalysis and target a.
C27_NoRevealRequestAfterReveal ==
    [][ \A a \in 1 .. analysisCount :
          getAnalysisStatus(a) =>
              /\ requestAnalysisDecryptionOutcome(a) = AlreadyRevealed
              /\ ~(requestAnalysisDecryption(a) /\ effects' # effects)
              /\ \A q \in (1 .. Len(oracleRequests')) \ Issued :
                    ~( /\ oracleRequests'[q].selector = "decryptAnalysis"
                       /\ oracleRequests'[q].target = a ) ]_vars

\* analysis 1 was revealed through request 2, a further dispatch is still
\* within the bound, and requestAnalysisDecryption(1) is refused
C27_Witness ==
    /\ analysisCount >= 1
    /\ getAnalysisStatus(1)
    /\ Len(oracleRequests) = 2
    /\ PurposeOf(2) = "decryptAnalysis"
    /\ TargetOf(2) = 1
    /\ 2 \in resolved
    /\ requestAnalysisDecryptionOutcome(1) = AlreadyRevealed

\* ---------------------------------------------------------------- C28
\* the locations some successful calculateRiskScore has contributed to
ContributedLocations ==
    { resolutions[n].scores[4] : n \in 1 .. Len(resolutions) }

\* C28: requestAreaStats(L) succeeds exactly when some successful
\* calculateRiskScore had the decrypted location code L, whatever hygiene
\* values were contributed, and fails with "No data for area" otherwise.
C28_AreaStatsIffContributed ==
    \A l \in LocationCodes :
        /\ l \in ContributedLocations => requestAreaStatsOutcome(l) = Ok
        /\ l \notin ContributedLocations => requestAreaStatsOutcome(l) = NoDataForArea

\* ---------------------------------------------------------------- C29
Range(s) == { s[i] : i \in DOMAIN s }

\* every client is back at the top level, no submitInspection in progress
AllComplete == \A c \in Clients : clients[c].pc = "idle"

\* C29: once every started call of the web client has completed, the id of
\* every submitInspection call that completed successfully is listed in the
\* index stored under "inspection_keys", as long as that index holds an array
\* (no submission's id is lost by another client's write-back of the index).
C29_NoSubmittedIdLost ==
    (AllComplete /\ dataStore["keys"].kind = "array")
        => \A recordId \in submitted : recordId \in Range(dataStore["keys"].items)

\* ---------------------------------------------------------------- C30
\* a record exists once submitInspection has stored it under its id
RecordExists(recordId) == recordId \in RecordIds /\ dataStore[recordId].kind = "object"

\* the completion of processInspection(recordId) by client c on an existing
\* record: status from the stored riskLevel, every other field kept
ProcessedAsClaimed(c, recordId) ==
    /\ dataStore'[recordId].kind = "object"
    /\ dataStore'[recordId].props["status"] =
           IF dataStore[recordId].props["riskLevel"] = "high" THEN "alert" ELSE "processed"
    /\ \A f \in FieldNames \ {"status"} :
           dataStore'[recordId].props[f] = dataStore[recordId].props[f]
    /\ clients'[c].transactionStatus = "success"

====
